---- MODULE Spec2Model ----
(***************************************************************************)
(* Model of the math-concept classifier: MathKnowledgeBase (backend/app.py)*)
(* and MathConceptHMM (backend/hidden_markov_model.py).                    *)
(*                                                                         *)
(* Concept ids are the integers 1..3; their order as integers stands for   *)
(* the order of the id strings under Python's string comparison.  The      *)
(* position of a concept in the table is its dict insertion order.         *)
(*                                                                         *)
(* Floating-point values are modelled as exact quantities                  *)
(*      (a * u + b * 1e-10) * 1e-10^f * 1e-200^k                           *)
(* with natural numbers a, b, f, k and a unit u fixed per table and per    *)
(* kind of value (a start probability, a transition, an emission, or a     *)
(* product of them): values that are compared or added share their unit.   *)
(* Rounding is not modelled; what is modelled of IEEE-754 doubles is       *)
(* underflow (a product carrying 1e-200 twice is 0.0) and absorption       *)
(* (x + y = x when y carries 1e-200 and x does not).                       *)
(***************************************************************************)
EXTENDS Integers, Sequences, FiniteSets, TLC

VARIABLES
    pc,            \* position in MathKnowledgeBase.__init__
    concepts,      \* kb.concepts: the concept table, in insertion order
    network,       \* kb.network: id -> [children, parents]
    hmm_params,    \* MathConceptHMM.hmm_params
    patterns,      \* MathConceptHMM.patterns: the keyword patterns, in dict order
    call           \* per request thread: the frame of its analyze_question call

vars == <<pc, concepts, network, hmm_params, patterns, call>>

kbVars == <<concepts, network, hmm_params, patterns>>

-----------------------------------------------------------------------------
(* Bounds *)

MaxTextLen == 2

MaxConcurrentTextLen == 2

-----------------------------------------------------------------------------
(* Numbers *)

Num(k, f, a, b) == [k |-> k, f |-> f, a |-> a, b |-> b]

Zero == Num(0, 0, 0, 0)

One == Num(0, 0, 1, 0)

\* A prior of 1e-200, a legal probability in [0, 1].
Tiny == Num(1, 0, 1, 0)

Whole(n) == IF n = 0 THEN Zero ELSE Num(0, 0, n, 0)

IsZero(x) == x.a = 0 /\ x.b = 0

\* x * y on doubles.  One factor is always free of a 1e-10 summand (b = 0).
\* A product carrying 1e-200 twice is below the least double (4.9e-324): 0.0.
Mul(x, y) ==
    IF IsZero(x) \/ IsZero(y) \/ x.k + y.k >= 2
    THEN Zero
    ELSE Num(x.k + y.k, x.f + y.f, x.a * y.a, x.a * y.b + x.b * y.a)

\* x + y on doubles.
Add(x, y) ==
    IF IsZero(x) THEN y
    ELSE IF IsZero(y) THEN x
    ELSE IF x.k < y.k THEN x
    ELSE IF y.k < x.k THEN y
    ELSE IF x.f = y.f THEN Num(x.k, x.f, x.a + y.a, x.b + y.b)
    ELSE IF x.f + 1 = y.f THEN Num(x.k, x.f, x.a, x.b + y.a)
    ELSE IF y.f + 1 = x.f THEN Num(y.k, y.f, y.a, y.b + x.a)
    ELSE IF x.f < y.f THEN x ELSE y

\* x < y on doubles.
Less(x, y) ==
    IF IsZero(y) THEN FALSE
    ELSE IF IsZero(x) THEN TRUE
    ELSE IF x.k # y.k THEN x.k > y.k
    ELSE IF x.f # y.f THEN x.f > y.f
    ELSE IF x.a # y.a THEN x.a < y.a
    ELSE x.b < y.b

RECURSIVE GCD(_, _)
GCD(m, n) == IF n = 0 THEN m ELSE GCD(n, m % n)

LCM(m, n) == (m * n) \div GCD(m, n)

RECURSIVE LCMOf(_)
LCMOf(S) ==
    IF S = {} THEN 1
    ELSE LET n == CHOOSE x \in S : TRUE
         IN  LCM(n, LCMOf(S \ {n}))

RECURSIVE SumNum(_)
SumNum(s) == IF s = <<>> THEN Zero ELSE Add(SumNum(SubSeq(s, 1, Len(s) - 1)), s[Len(s)])

Range(s) == {s[i] : i \in 1..Len(s)}

-----------------------------------------------------------------------------
(* The concept table *)

ConceptIds == 1..3

Keywords == {"sum", "squared"}

\* Concept: difficulty in tenths (0, 5, 10 for 0.0, 0.5, 1.0); probability a Num.
Concept(name, keywords, prerequisites, difficulty, probability) ==
    [name |-> name, keywords |-> keywords, prerequisites |-> prerequisites,
     difficulty |-> difficulty, probability |-> probability]

Orders == {<<1>>, <<1, 2>>, <<2, 1>>, <<1, 2, 3>>, <<3, 1, 2>>}

PrerequisiteChoices ==
    { [i \in ConceptIds |-> <<>>],
      (1 :> <<>>) @@ (2 :> <<1>>) @@ (3 :> <<2>>),
      (1 :> <<2>>) @@ (2 :> <<1>>) @@ (3 :> <<3>>),
      (1 :> <<>>) @@ (2 :> <<1, 3>>) @@ (3 :> <<1>>) }

KeywordChoices ==
    { (1 :> {"sum"}) @@ (2 :> {"squared"}) @@ (3 :> {}),
      [i \in ConceptIds |-> {"sum"}],
      (1 :> {"sum", "squared"}) @@ (2 :> {"sum"}) @@ (3 :> {"squared"}) }

\* <<difficulty, probability>> per concept.
PriorChoices ==
    { [i \in ConceptIds |-> <<5, One>>],
      (1 :> <<0, Zero>>) @@ (2 :> <<5, Zero>>) @@ (3 :> <<10, Zero>>),
      [i \in ConceptIds |-> <<5, Tiny>>],
      [i \in ConceptIds |-> <<10, Zero>>] }

ConceptTables ==
    { [i \in 1..Len(o) |->
          Concept(o[i], kw[o[i]], pre[o[i]], pri[o[i]][1], pri[o[i]][2])] :
      o \in Orders, pre \in PrerequisiteChoices, kw \in KeywordChoices,
      pri \in PriorChoices }

\* The tables served to concurrent requests: concept 2 listed before its
\* prerequisite 1.
ConcurrentTables ==
    {t \in ConceptTables :
        /\ Len(t) = 2
        /\ t[1].name = 2
        /\ t[1].prerequisites = <<1>>
        /\ t[1].keywords = {"squared"}}

ConceptKeys(table) == [i \in 1..Len(table) |-> table[i].name]

ConceptOf(table, name) ==
    table[CHOOSE i \in 1..Len(table) : table[i].name = name]

-----------------------------------------------------------------------------
(* MathKnowledgeBase._build_network *)

NetworkEntry(children, parents) == [children |-> children, parents |-> parents]

\* The inner loop over concept.prerequisites[j..].
RECURSIVE LinkPrerequisites(_, _, _, _)
LinkPrerequisites(net, concept_name, prerequisites, j) ==
    IF j > Len(prerequisites) THEN net
    ELSE LET prereq == prerequisites[j]
             next ==
                 IF prereq \in DOMAIN net
                 THEN [net EXCEPT ![prereq].children = Append(@, concept_name)]
                 ELSE (prereq :> NetworkEntry(<<concept_name>>, <<>>)) @@ net
         IN  LinkPrerequisites(next, concept_name, prerequisites, j + 1)

\* The outer loop over self.concepts.items()[i..].
RECURSIVE BuildNetworkFrom(_, _, _)
BuildNetworkFrom(table, i, net) ==
    IF i > Len(table) THEN net
    ELSE LET concept == table[i]
             own == (concept.name :> NetworkEntry(<<>>, concept.prerequisites)) @@ net
         IN  BuildNetworkFrom(table, i + 1,
                 LinkPrerequisites(own, concept.name, concept.prerequisites, 1))

-----------------------------------------------------------------------------
(* MathConceptHMM._initialize_hmm *)

Positive(x) == Less(Zero, x)

\* prior: probability if > 0 else 1 - difficulty, in tenths.
Prior(concept) ==
    IF Positive(concept.probability)
    THEN Mul(Whole(10), concept.probability)
    ELSE Whole(10 - concept.difficulty)

\* scaling: probability if > 0 else 1.0.
EffProb(concept) ==
    IF Positive(concept.probability) THEN concept.probability ELSE One

TotalProb(table) == SumNum([i \in 1..Len(table) |-> Prior(table[i])])

Vocabulary(table) == UNION {table[i].keywords : i \in 1..Len(table)}

\* The orders list(set) may produce.
Orderings(S) ==
    {s \in [1..Cardinality(S) -> S] : \A i, j \in DOMAIN s : i # j => s[i] # s[j]}

ConnectedStates(net, from_state) ==
    Range(net[from_state].children) \cup Range(net[from_state].parents)

\* The transition table holds multiples of 0.01 / TransitionDen.
TransitionDen(table, net) ==
    LCMOf(({Len(table) - 1} \cup
           {Cardinality(ConnectedStates(net, table[i].name)) : i \in 1..Len(table)})
          \ {0})

\* The emission table holds multiples of 0.2 / EmissionDen.
EmissionDen(table) ==
    LCMOf(({Cardinality(table[i].keywords) : i \in 1..Len(table)} \cup
           {Cardinality(Vocabulary(table)) - Cardinality(table[i].keywords) :
               i \in 1..Len(table)})
          \ {0})

\* The divisions by zero of _initialize_hmm: total_prob, and len(states) - 1.
InitializeHmmRaises(table) ==
    /\ Len(table) > 0
    /\ \/ IsZero(TotalProb(table))
       \/ Len(table) = 1

\* prior / total_prob, in units of 1 / (numerator of total_prob).
StartProbability(table, concept) ==
    LET prior == Prior(concept)
        total == TotalProb(table)
    IN  IF IsZero(prior) THEN Zero
        ELSE Num(prior.k - total.k, 0, prior.a, 0)

TransitionProbability(table, net, from_state, to_state) ==
    LET connected_states == ConnectedStates(net, from_state)
        den == TransitionDen(table, net)
        n == Cardinality(connected_states)
        connected == 27 * (den \div (IF n > 1 THEN n ELSE 1))
        base == 3 * (den \div (Len(table) - 1))
        concept_prob == EffProb(ConceptOf(table, to_state))
    IN  IF to_state = from_state THEN Mul(Whole(70 * den), concept_prob)
        ELSE IF to_state \in connected_states THEN Mul(Whole(connected), concept_prob)
        ELSE Mul(Whole(base), concept_prob)

EmissionProbability(table, state, obs) ==
    LET concept == ConceptOf(table, state)
        den == EmissionDen(table)
        scaling_factor == EffProb(concept)
        nkw == Cardinality(concept.keywords)
        nobs == Cardinality(Vocabulary(table))
    IN  IF obs \in concept.keywords
        THEN Mul(Whole(4 * (den \div nkw)), scaling_factor)
        ELSE Mul(Whole(den \div (nobs - nkw)), scaling_factor)

HMMParams(states, observations, start_probabilities, transition_matrix, emission_matrix) ==
    [states |-> states, observations |-> observations,
     start_probabilities |-> start_probabilities,
     transition_matrix |-> transition_matrix,
     emission_matrix |-> emission_matrix]

NoParams == HMMParams(<<>>, <<>>, <<>>, <<>>, <<>>)

InitializeHmmParams(table, net, observations) ==
    LET states == ConceptKeys(table)
        S == Range(states)
    IN  HMMParams(
            states,
            observations,
            [s \in S |-> StartProbability(table, ConceptOf(table, s))],
            [f \in S |-> [t \in S |-> TransitionProbability(table, net, f, t)]],
            [s \in S |-> [o \in Range(observations) |-> EmissionProbability(table, s, o)]])

-----------------------------------------------------------------------------
(* Question texts *)

(* A text is a sequence of atoms: a word of letters, a digit, or one other  *)
(* character.  Adjacent word and digit atoms run together into one word, as *)
(* their characters do in the string.  "sup2" is the one character U+00B2, *)
(* the superscript two.                                                     *)
Alphabet == {"sum", "SUM", "squared", "7", "=", "<", "sup2", " "}

TextsOver(atoms, n) == UNION {[1..m -> atoms] : m \in 0..n}

Texts(n) == TextsOver(Alphabet, n)

\* Longer questions, for observation sequences of three and four symbols.
LongQuestions ==
    { <<"sum", " ", "squared">>,
      <<"squared", "=", "sup2">>,
      <<"sum", "<", "squared">>,
      <<"SUM", "=", "squared">>,
      <<"7", "<", "7">>,
      <<"sum", "=", "<", "sup2">>,
      <<"squared", "<", "sum", "7">> }

Questions == Texts(MaxTextLen) \cup LongQuestions

\* The questions of concurrent requests.
ConcurrentQuestions ==
    TextsOver({"sum", "squared", "="}, MaxConcurrentTextLen)
    \cup {<<"sum", " ", "squared">>}

\* \d
IsDigit(atom) == atom \in {"7", "2"}

\* \w: letters, digits, and the superscript two (str.isalnum() holds of it).
IsWord(atom) ==
    atom \in {"sum", "SUM", "squared", "over", "divided", "by", "f", "g", "x",
              "7", "2", "sup2"}

\* str.lower()
LowerAtom(atom) == IF atom = "SUM" THEN "sum" ELSE atom

Lower(question) == [i \in 1..Len(question) |-> LowerAtom(question[i])]

\* \b before position i, and after it, for a word atom at i.
BoundaryBefore(text, i) == i = 1 \/ ~IsWord(text[i - 1])

BoundaryAfter(text, i) == i = Len(text) \/ ~IsWord(text[i + 1])

-----------------------------------------------------------------------------
(* MathConceptHMM._compile_observation_patterns, _extract_observations *)

\* re.compile(r'\b' + re.escape(obs) + r'\b', re.IGNORECASE).search(text)
KeywordSearch(obs, text) ==
    \E i \in 1..Len(text) :
        /\ LowerAtom(text[i]) = LowerAtom(obs)
        /\ BoundaryBefore(text, i)
        /\ BoundaryAfter(text, i)

\* [^><=]=(?!=)
EquationSearch(text) ==
    \E i \in 2..Len(text) :
        /\ text[i] = "="
        /\ text[i - 1] \notin {">", "<", "="}
        /\ (i < Len(text) => text[i + 1] # "=")

\* [<>]=?|!=
InequalitySearch(text) ==
    \E i \in 1..Len(text) :
        \/ text[i] \in {"<", ">"}
        \/ text[i] = "!" /\ i < Len(text) /\ text[i + 1] = "="

\* \b\w+\^2\b|(superscript two)
SquaredSearch(text) ==
    \E i \in 1..Len(text) :
        \/ text[i] = "sup2"
        \/ /\ 1 < i /\ i < Len(text)
           /\ IsWord(text[i - 1])
           /\ text[i] = "^"
           /\ text[i + 1] = "2"
           /\ BoundaryAfter(text, i + 1)

\* /|\bover\b|\bdivided by\b
FractionSearch(text) ==
    \E i \in 1..Len(text) :
        \/ text[i] = "/"
        \/ text[i] = "over" /\ BoundaryBefore(text, i) /\ BoundaryAfter(text, i)
        \/ /\ i + 2 <= Len(text)
           /\ text[i] = "divided" /\ text[i + 1] = " " /\ text[i + 2] = "by"
           /\ BoundaryBefore(text, i) /\ BoundaryAfter(text, i + 2)

\* \b[fg]\(.*?\)
FunctionSearch(text) ==
    \E i \in 1..Len(text) : \E j \in 1..Len(text) :
        /\ text[i] \in {"f", "g"}
        /\ BoundaryBefore(text, i)
        /\ i + 1 < j
        /\ text[i + 1] = "("
        /\ text[j] = ")"
        /\ \A m \in (i + 2)..(j - 1) : text[m] # "\n"

\* self.special_patterns, in dict order.
SpecialPatterns == <<"equation", "inequality", "squared", "fraction", "function">>

SpecialSearch(obs_type, text) ==
    CASE obs_type = "equation" -> EquationSearch(text)
      [] obs_type = "inequality" -> InequalitySearch(text)
      [] obs_type = "squared" -> SquaredSearch(text)
      [] obs_type = "fraction" -> FractionSearch(text)
      [] obs_type = "function" -> FunctionSearch(text)

\* \b\d+\b
NumberSearch(text) ==
    \E i \in 1..Len(text) : \E j \in i..Len(text) :
        /\ \A m \in i..j : IsDigit(text[m])
        /\ BoundaryBefore(text, i)
        /\ BoundaryAfter(text, j)

\* The loop over self.patterns.items().
RECURSIVE MatchingKeywords(_, _)
MatchingKeywords(pats, text) ==
    IF pats = <<>> THEN <<>>
    ELSE (IF KeywordSearch(Head(pats), text) THEN <<Head(pats)>> ELSE <<>>)
         \o MatchingKeywords(Tail(pats), text)

\* The loop over self.special_patterns.items().
RECURSIVE MatchingSpecial(_, _)
MatchingSpecial(names, text) ==
    IF names = <<>> THEN <<>>
    ELSE (IF SpecialSearch(Head(names), text) THEN <<Head(names)>> ELSE <<>>)
         \o MatchingSpecial(Tail(names), text)

\* An extraction into a list shared by the calls and not cleared: what a call
\* that has not returned yet appended is still in it.
ExtractObservationsShared(pats, question) ==
    LET pending == {th \in DOMAIN call : call[th].phase = "done"}
        left == IF pending = {} THEN <<>>
                ELSE call[CHOOSE th \in pending : TRUE].observations
        observations ==
            left \o MatchingKeywords(pats, question)
                 \o MatchingSpecial(SpecialPatterns, question)
    IN  IF observations = <<>> /\ NumberSearch(question)
        THEN <<"operand">>
        ELSE observations

\* An extraction that adds 'operand' for a number whatever else matched.
ExtractObservationsOperandAlways(pats, question) ==
    MatchingKeywords(pats, question)
    \o MatchingSpecial(SpecialPatterns, question)
    \o (IF NumberSearch(question) THEN <<"operand">> ELSE <<>>)

ExtractObservations(pats, question) ==
    LET observations ==
            MatchingKeywords(pats, question)
            \o MatchingSpecial(SpecialPatterns, question)
    IN  IF observations = <<>> /\ NumberSearch(question)
        THEN <<"operand">>
        ELSE observations

-----------------------------------------------------------------------------
(* MathConceptHMM.viterbi *)

\* 1e-10, the default of emission_matrix[state].get(obs, 1e-10).
EmissionFloor == Num(0, 1, 1, 0)

EmissionGet(params, state, obs) ==
    IF obs \in DOMAIN params.emission_matrix[state]
    THEN params.emission_matrix[state][obs]
    ELSE EmissionFloor

\* The comparison of a max() that looked at the values alone.
TupleGreaterByValue(x, y) == Less(y[1], x[1])

\* x > y on Python tuples (value, state): the first unequal component decides.
TupleGreater(x, y) ==
    IF Less(y[1], x[1]) THEN TRUE
    ELSE IF Less(x[1], y[1]) THEN FALSE
    ELSE x[2] > y[2]

\* max(items): the first item no later item is greater than.
RECURSIVE MaxFrom(_, _, _)
MaxFrom(items, i, best) ==
    IF i > Len(items) THEN best
    ELSE MaxFrom(items, i + 1, IF TupleGreater(items[i], best) THEN items[i] ELSE best)

MaxTuple(items) == MaxFrom(items, 2, items[1])

\* V[0] and path of lines 111-114.
ViterbiFirstRow(params, observations) ==
    [state \in Range(params.states) |->
        Mul(params.start_probabilities[state],
            EmissionGet(params, state, observations[1]))]

ViterbiFirstPath(params) == [state \in Range(params.states) |-> <<state>>]

\* The (max_prob, best_state) of lines 120-126, for observation t (from 1).
BestPredecessor(params, observations, prev_row, t, curr_state) ==
    MaxTuple([i \in 1..Len(params.states) |->
        LET prev_state == params.states[i]
        IN  <<Mul(Mul(prev_row[prev_state],
                      params.transition_matrix[prev_state][curr_state]),
                  EmissionGet(params, curr_state, observations[t])),
              prev_state>>])

ViterbiRow(params, observations, prev_row, t) ==
    [curr_state \in Range(params.states) |->
        BestPredecessor(params, observations, prev_row, t, curr_state)[1]]

\* A path update that extends each state's own path, not its best predecessor's.
ViterbiPathOwn(params, observations, prev_row, path, t) ==
    [curr_state \in Range(params.states) |-> Append(path[curr_state], curr_state)]

ViterbiPath(params, observations, prev_row, path, t) ==
    [curr_state \in Range(params.states) |->
        Append(path[BestPredecessor(params, observations, prev_row, t, curr_state)[2]],
               curr_state)]

\* max((V[-1][state], state) for state in states)
BestFinal(params, last_row) ==
    MaxTuple([i \in 1..Len(params.states) |->
        <<last_row[params.states[i]], params.states[i]>>])

-----------------------------------------------------------------------------
(* MathConceptHMM.analyze_question *)

\* 'basic_arithmetic': the least of the ids in string order.
BasicArithmetic == 1

\* The difficulty 0.2 of the fixed response, in tenths.
ShortcutDifficulty == 2

Probability(num, den) == [num |-> num, den |-> den]

IsNaN(p) == IsZero(p.den)

Related(concept, probability, difficulty) ==
    [concept |-> concept, probability |-> probability, difficulty |-> difficulty]

Result(kind, main_concept, confidence, prerequisites, related_concepts, observations) ==
    [kind |-> kind, main_concept |-> main_concept, confidence |-> confidence,
     prerequisites |-> prerequisites, related_concepts |-> related_concepts,
     observations |-> observations]

NoResult == Result("none", 0, Zero, <<>>, <<>>, <<>>)

\* {'error': 'No relevant patterns found in question', 'concepts': []}
ErrorResult == Result("error", 0, Zero, <<>>, <<>>, <<>>)

ShortcutResult(observations) ==
    Result("ok", BasicArithmetic, One, <<>>,
           <<Related(BasicArithmetic, Probability(One, One), ShortcutDifficulty)>>,
           observations)

\* np.mean of the emissions, in units of 1 / len(observations).
EmissionScore(params, concept, observations) ==
    SumNum([i \in 1..Len(observations) |-> EmissionGet(params, concept, observations[i])])

TransitionScore(params, state_sequence, concept) ==
    IF Len(state_sequence) > 1
    THEN params.transition_matrix[state_sequence[Len(state_sequence) - 1]][concept]
    ELSE params.start_probabilities[concept]

Score(params, state_sequence, observations, concept) ==
    Mul(EmissionScore(params, concept, observations),
        TransitionScore(params, state_sequence, concept))

\* total_score after the loop of lines 157-173.
TotalScore(params, state_sequence, observations) ==
    SumNum([i \in 1..Len(params.states) |->
        Score(params, state_sequence, observations, params.states[i])])

\* x < y on the probabilities: a NaN is less than nothing.
ProbabilityLess(x, y) == ~IsNaN(x) /\ ~IsNaN(y) /\ Less(x.num, y.num)

\* The insertion of a sort that lost its reverse=True.
RECURSIVE InsertAscending(_, _)
InsertAscending(sorted, x) ==
    IF sorted = <<>> THEN <<x>>
    ELSE IF ProbabilityLess(x.probability, Head(sorted).probability)
         THEN <<x>> \o sorted
         ELSE <<Head(sorted)>> \o InsertAscending(Tail(sorted), x)

\* list.sort(key=probability, reverse=True): stable, descending.
RECURSIVE InsertDescending(_, _)
InsertDescending(sorted, x) ==
    IF sorted = <<>> THEN <<x>>
    ELSE IF ProbabilityLess(Head(sorted).probability, x.probability)
         THEN <<x>> \o sorted
         ELSE <<Head(sorted)>> \o InsertDescending(Tail(sorted), x)

RECURSIVE SortDescending(_)
SortDescending(s) ==
    IF s = <<>> THEN <<>>
    ELSE InsertDescending(SortDescending(SubSeq(s, 1, Len(s) - 1)), s[Len(s)])

RelatedConcepts(table, params, state_sequence, observations) ==
    LET total_score == TotalScore(params, state_sequence, observations)
    IN  SortDescending([i \in 1..Len(params.states) |->
            Related(params.states[i],
                    Probability(Score(params, state_sequence, observations,
                                      params.states[i]),
                                total_score),
                    ConceptOf(table, params.states[i]).difficulty)])

AnalysisResult(table, params, prob, state_sequence, observations) ==
    LET final_concept == state_sequence[Len(state_sequence)]
    IN  Result("ok", final_concept, prob,
               ConceptOf(table, final_concept).prerequisites,
               RelatedConcepts(table, params, state_sequence, observations),
               observations)

-----------------------------------------------------------------------------
(* State machine *)

Threads == {1, 2}

Frame(phase, question, observations, V, path, state_sequence, result) ==
    [phase |-> phase, question |-> question, observations |-> observations,
     V |-> V, path |-> path, state_sequence |-> state_sequence, result |-> result]

IdleFrame == Frame("idle", <<>>, <<>>, <<>>, <<>>, <<>>, NoResult)

Init ==
    /\ pc = "init"
    /\ concepts = <<>>
    /\ network = <<>>
    /\ hmm_params = NoParams
    /\ patterns = <<>>
    /\ call = [th \in Threads |-> IdleFrame]

\* MathKnowledgeBase._initialize_concepts, for a concept table given as data.
InitializeConcepts(table) ==
    /\ pc = "init"
    /\ concepts' = table
    /\ pc' = "concepts"
    /\ UNCHANGED <<network, hmm_params, patterns, call>>

BuildNetwork ==
    /\ pc = "concepts"
    /\ network' = BuildNetworkFrom(concepts, 1, network)
    /\ pc' = "network"
    /\ UNCHANGED <<concepts, hmm_params, patterns, call>>

InitializeHmm ==
    /\ pc = "network"
    /\ ~InitializeHmmRaises(concepts)
    /\ \E observations \in Orderings(Vocabulary(concepts)) :
           hmm_params' = InitializeHmmParams(concepts, network, observations)
    /\ pc' = "hmm"
    /\ UNCHANGED <<concepts, network, patterns, call>>

\* ZeroDivisionError leaves MathKnowledgeBase() unconstructed.
InitializeHmmError ==
    /\ pc = "network"
    /\ InitializeHmmRaises(concepts)
    /\ pc' = "failed"
    /\ UNCHANGED <<concepts, network, hmm_params, patterns, call>>

CompileObservationPatterns ==
    /\ pc = "hmm"
    /\ patterns' = hmm_params.observations
    /\ pc' = "ready"
    /\ UNCHANGED <<concepts, network, hmm_params, call>>

\* analyze_question without the guard of lines 136-140.
BeginAnalyzeUnguarded(th, question) ==
    /\ pc = "ready"
    /\ call[th].phase = "idle"
    /\ LET observations == ExtractObservations(patterns, Lower(question))
       IN  call' = [call EXCEPT ![th] =
               IF observations = <<"operand">>
               THEN Frame("done", question, observations, <<>>, <<>>, <<>>,
                          ShortcutResult(observations))
               ELSE Frame("viterbi", question, observations,
                          IF observations = <<>> THEN <<>>
                          ELSE <<ViterbiFirstRow(hmm_params, observations)>>,
                          ViterbiFirstPath(hmm_params), <<>>, NoResult)]
    /\ UNCHANGED <<pc, kbVars>>

\* analyze_question up to the first row of viterbi (lines 135-149, 109-114).
BeginAnalyze(th, question) ==
    /\ pc = "ready"
    /\ call[th].phase = "idle"
    /\ LET observations == ExtractObservations(patterns, Lower(question))
       IN  call' = [call EXCEPT ![th] =
               IF observations = <<>>
               THEN Frame("done", question, observations, <<>>, <<>>, <<>>, ErrorResult)
               ELSE IF observations = <<"operand">>
               THEN Frame("done", question, observations, <<>>, <<>>, <<>>,
                          ShortcutResult(observations))
               ELSE Frame("viterbi", question, observations,
                          <<ViterbiFirstRow(hmm_params, observations)>>,
                          ViterbiFirstPath(hmm_params), <<>>, NoResult)]
    /\ UNCHANGED <<pc, kbVars>>

\* One iteration of the loop of lines 116-129.
ViterbiStep(th) ==
    /\ call[th].phase = "viterbi"
    /\ Len(call[th].V) < Len(call[th].observations)
    /\ LET f == call[th]
           t == Len(f.V) + 1
       IN  call' = [call EXCEPT ![th] =
               [f EXCEPT
                   !.V = Append(@, ViterbiRow(hmm_params, f.observations, f.V[t - 1], t)),
                   !.path = ViterbiPath(hmm_params, f.observations, f.V[t - 1], @, t)]]
    /\ UNCHANGED <<pc, kbVars>>

\* The frame after the return of viterbi and the scoring (lines 131-132, 151-191).
FinishedFrame(f) ==
    LET best == BestFinal(hmm_params, f.V[Len(f.V)])
        state_sequence == f.path[best[2]]
    IN  [f EXCEPT
            !.phase = "done",
            !.state_sequence = state_sequence,
            !.result = AnalysisResult(concepts, hmm_params, best[1],
                                      state_sequence, f.observations)]

\* A scoring that ranks self.hmm_params.states itself, sorting it in place.
FinishAnalyzeRankingStates(th) ==
    /\ call[th].phase = "viterbi"
    /\ Len(call[th].V) = Len(call[th].observations)
    /\ call' = [call EXCEPT ![th] = FinishedFrame(call[th])]
    /\ hmm_params' =
           [hmm_params EXCEPT !.states =
               LET related == FinishedFrame(call[th]).result.related_concepts
               IN  [i \in 1..Len(related) |-> related[i].concept]]
    /\ UNCHANGED <<pc, concepts, network, patterns>>

FinishAnalyze(th) ==
    /\ call[th].phase = "viterbi"
    /\ Len(call[th].V) = Len(call[th].observations)
    /\ call' = [call EXCEPT ![th] = FinishedFrame(call[th])]
    /\ UNCHANGED <<pc, kbVars>>

\* The call returns; its frame is gone.
Return(th) ==
    /\ call[th].phase = "done"
    /\ call' = [call EXCEPT ![th] = IdleFrame]
    /\ UNCHANGED <<pc, kbVars>>

Construct ==
    \/ \E table \in ConceptTables : InitializeConcepts(table)
    \/ BuildNetwork
    \/ InitializeHmm
    \/ InitializeHmmError
    \/ CompileObservationPatterns

Next ==
    \/ Construct
    \/ \E question \in Questions : BeginAnalyze(1, question)
    \/ ViterbiStep(1)
    \/ FinishAnalyze(1)
    \/ Return(1)

Spec == Init /\ [][Next]_vars

\* Two request threads whose calls interleave step by step.
NextConcurrent ==
    \/ \E table \in ConcurrentTables : InitializeConcepts(table)
    \/ BuildNetwork
    \/ InitializeHmm
    \/ InitializeHmmError
    \/ CompileObservationPatterns
    \/ \E th \in Threads :
           \/ \E question \in ConcurrentQuestions : BeginAnalyze(th, question)
           \/ ViterbiStep(th)
           \/ FinishAnalyze(th)
           \/ Return(th)

SpecConcurrent == Init /\ [][NextConcurrent]_vars

-----------------------------------------------------------------------------
(* Claims *)

Frames == {call[th] : th \in Threads}

States == Range(hmm_params.states)

PositionIn(s, x) == CHOOSE i \in 1..Len(s) : s[i] = x

SameValue(x, y) == ~Less(x, y) /\ ~Less(y, x)

\* The predecessors of curr_state whose score(t-1, prev) x Transition(prev -> s)
\* is maximal, for the newest row of frame f.
MaximalPredecessors(f, curr_state) ==
    LET prev_row == f.V[Len(f.V) - 1]
        value(p) == Mul(prev_row[p], hmm_params.transition_matrix[p][curr_state])
    IN  {p \in States : \A q \in States : ~Less(value(p), value(q))}

\* The same with the product viterbi compares, Emission(s, obs[t]) included.
MaximalCompared(f, curr_state) ==
    LET prev_row == f.V[Len(f.V) - 1]
        value(p) ==
            Mul(Mul(prev_row[p], hmm_params.transition_matrix[p][curr_state]),
                EmissionGet(hmm_params, curr_state, f.observations[Len(f.V)]))
    IN  {p \in States : \A q \in States : ~Less(value(p), value(q))}

\* The predecessor recorded on the best path to curr_state in the newest row.
RecordedPredecessor(f, curr_state) == f.path[curr_state][Len(f.V) - 1]

\* C1 as stated: among predecessors tied at the maximum, viterbi records the one
\* earliest in the state list.  (Stated for a maximum that is not 0.0, so that
\* no tie it speaks of comes from underflow.)
C1_EarliestWins ==
    \A f \in Frames : Len(f.V) >= 2 =>
        \A s \in States :
            LET tied == MaximalPredecessors(f, s)
            IN  Cardinality(tied) >= 2 /\ ~IsZero(f.V[Len(f.V)][s]) =>
                    \A p \in tied :
                        PositionIn(hmm_params.states, RecordedPredecessor(f, s))
                            <= PositionIn(hmm_params.states, p)

\* C1 amended: among predecessors tied at the maximum of the compared product,
\* viterbi records the one whose id is greatest in string order.
C1_GreatestIdWins ==
    \A f \in Frames : Len(f.V) >= 2 =>
        \A s \in States :
            LET tied == MaximalCompared(f, s)
            IN  Cardinality(tied) >= 2 =>
                    /\ RecordedPredecessor(f, s) \in tied
                    /\ \A p \in tied : p <= RecordedPredecessor(f, s)

\* A tie at t >= 1 whose winner is not the earliest of the tied states.
C1_Witness ==
    \E f \in Frames :
        /\ Len(f.V) >= 2
        /\ \E s \in States :
               LET tied == MaximalCompared(f, s)
               IN  /\ Cardinality(tied) >= 2
                   /\ ~IsZero(f.V[Len(f.V)][s])
                   /\ \E p \in tied :
                          PositionIn(hmm_params.states, p)
                              < PositionIn(hmm_params.states, RecordedPredecessor(f, s))

\* The frames of calls that have extracted their observations.
Called == {f \in Frames : f.phase # "idle"}

\* The frames of calls that returned the dictionary of lines 185-191.
Scored == {f \in Frames : f.phase = "done" /\ f.state_sequence # <<>>}

\* C2: the list of extracted observations holds no symbol twice.
C2_NoDuplicateSymbols ==
    \A f \in Called :
        \A i, j \in 1..Len(f.observations) :
            i # j => f.observations[i] # f.observations[j]

\* The pairs <<a, b>> with b reachable from a along prerequisite edges.
RECURSIVE Closure(_)
Closure(R) ==
    LET next == R \cup {<<pq[1][1], pq[2][2]>> :
                            pq \in {x \in R \X R : x[1][2] = x[2][1]}}
    IN  IF next = R THEN R ELSE Closure(next)

PrerequisiteEdges(table) ==
    {e \in ConceptIds \X ConceptIds :
        \E i \in 1..Len(table) :
            table[i].name = e[1] /\ e[2] \in Range(table[i].prerequisites)}

HasPrerequisiteCycle(table) ==
    \E p \in Closure(PrerequisiteEdges(table)) : p[1] = p[2]

\* C3: a concept table with a prerequisite cycle never gets to serve analyze.
C3_CycleRejected == HasPrerequisiteCycle(concepts) => pc \notin {"hmm", "ready"}

\* C4: a zero sum of raw scores is answered by a structured error, not by a
\* result whose probabilities were divided by it.
C4_ZeroTotalGuarded ==
    \A f \in Scored :
        IsZero(TotalScore(hmm_params, f.state_sequence, f.observations)) =>
            /\ f.result.kind = "error"
            /\ \A i \in 1..Len(f.result.related_concepts) :
                   ~IsNaN(f.result.related_concepts[i].probability)

\* The probabilities of a related_concepts list sum to 1.
SumsToOne(related) ==
    /\ \A i \in 1..Len(related) : ~IsNaN(related[i].probability)
    /\ \A i \in 1..Len(related) : related[i].probability.den = related[1].probability.den
    /\ SameValue(SumNum([i \in 1..Len(related) |-> related[i].probability.num]),
                 related[1].probability.den)

\* C5: off the no-observations and shortcut paths, the probabilities of
\* related_concepts sum to 1.
C5_ProbabilitiesSumToOne ==
    \A f \in Scored : SumsToOne(f.result.related_concepts)

\* The scored calls whose normalization divided by a nonzero total.
Normalized ==
    {f \in Scored : ~IsZero(TotalScore(hmm_params, f.state_sequence, f.observations))}

\* Where the total is not zero, the probabilities do sum to 1.
C5_SumToOneUnlessZeroTotal ==
    \A f \in Normalized : SumsToOne(f.result.related_concepts)

\* C6: a successful call off the shortcut path returns exactly one entry per
\* concept of the graph, in order of non-increasing probability.
C6_OneEntryPerConceptSorted ==
    \A f \in Scored :
        LET related == f.result.related_concepts
        IN  /\ Len(related) = Len(hmm_params.states)
            /\ \A c \in States : \E i \in 1..Len(related) : related[i].concept = c
            /\ \A i, j \in 1..Len(related) :
                   i < j => ~ProbabilityLess(related[i].probability,
                                             related[j].probability)

\* A ranking that is not the state order: a concept off the decoded path's
\* last state is listed, and some later state outranks an earlier one.
C6_Witness ==
    \E f \in Normalized :
        LET related == f.result.related_concepts
        IN  /\ Len(f.state_sequence) >= 2
            /\ Len(related) = 3
            /\ \E i \in 1..2 :
                   /\ Less(related[i + 1].probability.num, related[i].probability.num)
                   /\ PositionIn(hmm_params.states, related[i].concept)
                          > PositionIn(hmm_params.states, related[i + 1].concept)

\* No keyword of the vocabulary and none of the five composite patterns matches.
NothingMatches(text) ==
    /\ \A kw \in Range(hmm_params.observations) : ~KeywordSearch(kw, text)
    /\ \A i \in 1..Len(SpecialPatterns) : ~SpecialSearch(SpecialPatterns[i], text)

\* The text holds a run of digits that no letter or digit adjoins.
HasBareInteger(text) ==
    \E i \in 1..Len(text) :
        /\ IsDigit(text[i])
        /\ \A j \in 1..Len(text) :
               (\A m \in 1..Len(text) : (i <= m /\ m <= j) \/ (j <= m /\ m <= i)
                                            => IsWord(text[m]))
                   => IsDigit(text[j])

\* C7: a text that matches nothing but holds a bare integer yields exactly
\* <<"operand">> and the fixed response, viterbi and the scoring not run; and
\* "operand" never stands beside another symbol.
C7_OperandShortcut ==
    \A f \in Called :
        /\ NothingMatches(Lower(f.question)) /\ HasBareInteger(Lower(f.question)) =>
               /\ f.observations = <<"operand">>
               /\ f.phase = "done"
               /\ f.V = <<>> /\ f.state_sequence = <<>>
               /\ f.result.main_concept = BasicArithmetic
               /\ f.result.confidence = One
               /\ f.result.prerequisites = <<>>
               /\ Len(f.result.related_concepts) = 1
               /\ f.result.related_concepts[1].concept = BasicArithmetic
               /\ f.result.related_concepts[1].probability = Probability(One, One)
        /\ (\E i \in 1..Len(f.observations) : f.observations[i] = "operand") =>
               f.observations = <<"operand">>

\* The shortcut taken for a number in a text of several atoms.
C7_Witness ==
    \E f \in Called :
        /\ NothingMatches(Lower(f.question)) /\ HasBareInteger(Lower(f.question))
        /\ Len(f.question) >= 2
        /\ f.result.kind = "ok"
        /\ f.observations = <<"operand">>

\* C8: a text from which nothing is extracted gets the error structure as a
\* value, and viterbi is never entered with an empty observation sequence.
C8_NoObservationsError ==
    \A f \in Called :
        /\ NothingMatches(Lower(f.question)) /\ ~HasBareInteger(Lower(f.question)) =>
               /\ f.observations = <<>>
               /\ f.phase = "done"
               /\ f.result = ErrorResult
               /\ f.result.kind = "error" /\ f.result.related_concepts = <<>>
        /\ (f.phase = "viterbi" \/ f.V # <<>>) => f.observations # <<>>

\* The error structure returned for the empty string and for a text of atoms.
C8_Witness ==
    /\ \E f \in Called :
           /\ f.question # <<>>
           /\ NothingMatches(Lower(f.question)) /\ ~HasBareInteger(Lower(f.question))
           /\ f.result = ErrorResult
    /\ pc = "ready"

\* C9: two calls with the same text against the same knowledge base return
\* the same main_concept, decoded path, observations and ranking, whatever
\* other calls ran before or between them.
C9_SameTextSameResult ==
    \A f, g \in Frames :
        f.phase = "done" /\ g.phase = "done" /\ f.question = g.question =>
            /\ f.result.main_concept = g.result.main_concept
            /\ f.state_sequence = g.state_sequence
            /\ f.result.observations = g.result.observations
            /\ f.result.related_concepts = g.result.related_concepts

\* Both threads hold the result of a decoding of the same two-keyword text.
C9_Witness ==
    /\ call[1].phase = "done" /\ call[2].phase = "done"
    /\ call[1].question = call[2].question
    /\ Len(call[1].state_sequence) >= 2
    /\ Len(hmm_params.observations) = 2
    /\ call[1].result.observations = hmm_params.observations

\* C10: once the knowledge base is built, no step of any call changes the
\* concept map, the network, the lists and tables of the HMM, or the patterns.
C10_BuiltStateImmutable == [][pc = "ready" => UNCHANGED kbVars]_vars

\* One call has returned its ranking while another is inside viterbi.
C10_Witness ==
    /\ pc = "ready"
    /\ call[1].phase = "done" /\ call[1].state_sequence # <<>>
    /\ call[2].phase = "viterbi" /\ Len(call[2].V) = 2
    /\ hmm_params.states = ConceptKeys(concepts)

\* Start(p[0]) x Emission(p[0], obs[0]) x the product over 1..t-1 of
\* Transition(p[i-1] -> p[i]) x Emission(p[i], obs[i]), multiplied left to right.
RECURSIVE PathProduct(_, _, _)
PathProduct(p, obs, t) ==
    IF t = 1
    THEN Mul(hmm_params.start_probabilities[p[1]],
             EmissionGet(hmm_params, p[1], obs[1]))
    ELSE Mul(Mul(PathProduct(p, obs, t - 1),
                 hmm_params.transition_matrix[p[t - 1]][p[t]]),
             EmissionGet(hmm_params, p[t], obs[t]))

\* C11: for T >= 1 observations viterbi returns a path of length T and the
\* probability that is the product of start, transition and emission factors
\* along that path, and no state sequence of length T has a strictly larger
\* product (unseen symbols taking the floor).
C11_ViterbiMaximal ==
    \A f \in Scored :
        LET T == Len(f.observations)
        IN  /\ Len(f.state_sequence) = T
            /\ SameValue(f.result.confidence,
                         PathProduct(f.state_sequence, f.observations, T))
            /\ \A p \in [1..T -> States] :
                   ~Less(f.result.confidence, PathProduct(p, f.observations, T))

\* A decoding of three or more observations whose best path changes state and
\* has a nonzero probability.
C11_Witness ==
    \E f \in Scored :
        /\ Len(f.observations) >= 3
        /\ ~IsZero(f.result.confidence)
        /\ \E t \in 2..Len(f.state_sequence) :
               f.state_sequence[t] # f.state_sequence[t - 1]

Defined == Range(ConceptKeys(concepts))

Built == pc \notin {"init", "concepts"}

\* children and parents of the network mirror the prerequisite lists.
MirrorsPrerequisites ==
    \A A, B \in Defined :
        /\ B \in Range(network[A].children)
               <=> A \in Range(ConceptOf(concepts, B).prerequisites)
        /\ network[B].parents = ConceptOf(concepts, B).prerequisites

\* Some concept stands in the table before one of its prerequisites.
ListedBeforePrerequisite ==
    \E i, j \in 1..Len(concepts) :
        /\ i < j
        /\ concepts[j].name \in Range(concepts[i].prerequisites)

\* C12: after _build_network, B is in children[A] exactly when A is a
\* prerequisite of B, and parents[B] is the prerequisite list of B, for every
\* order of the table.
C12_ChildrenMirrorPrerequisites == Built => MirrorsPrerequisites

\* The mirror holds in every table that lists each prerequisite no later than
\* the concepts that need it.
C12_MirrorWhenPrerequisitesFirst ==
    Built /\ ~ListedBeforePrerequisite => MirrorsPrerequisites

Comparators == {"<", ">", "="}

\* The text holds a '=' with no '<', '>' or '=' right before or right after it.
HasBareEquals(text) ==
    \E i \in 1..Len(text) :
        /\ text[i] = "="
        /\ i > 1 => text[i - 1] \notin Comparators
        /\ i < Len(text) => text[i + 1] \notin Comparators

\* C13: extraction emits 'equation' exactly when the text holds a '=' that is
\* neither immediately preceded nor immediately followed by '<', '>' or '=',
\* wherever it stands, the first character included.
C13_EquationIffBareEquals ==
    \A f \in Called :
        "equation" \in Range(f.observations) <=> HasBareEquals(f.question)

\* 'equation' is emitted exactly when some '=' has a character before it that
\* is none of '<', '>', '=' and has no '=' right after it.
C13_EquationIffPrecededEquals ==
    \A f \in Called :
        "equation" \in Range(f.observations) <=>
            \E i \in 2..Len(f.question) :
                /\ f.question[i] = "="
                /\ f.question[i - 1] \notin Comparators
                /\ i < Len(f.question) => f.question[i + 1] # "="

====
